---- MODULE Spec2Model ----
(***************************************************************************)
(* Model of the New York Times COVID-19 county pipeline:                   *)
(*   newyork_times_covid19_data_processing.py  (cleaners, join, statistics)*)
(*   main.py                                   (read, clean, join, stats,  *)
(*                                              write)                     *)
(*                                                                         *)
(* A pandas DataFrame is a record [dtypes, rows]: dtypes maps each column  *)
(* name to its dtype, rows is the sequence of rows in positional order.    *)
(* A cell is a sequence of length at most one: << >> is the missing value  *)
(* (NaN, or NaT in a datetime column) and <<v>> holds v.  A string read    *)
(* from a CSV file is a sequence of characters, except a date string,      *)
(* which is one atom looked up by the date parser.  A parsed date is the   *)
(* number of the day.                                                      *)
(***************************************************************************)
EXTENDS Integers, Sequences, FiniteSets, TLC

VARIABLES
    pc,             \* position of main(), or of the caller of a single stage
    error,          \* the stage whose exception ended the run, "none" otherwise
    df_covid,       \* main's local df_covid (raw after read, cleaned after step 3)
    df_population,  \* main's local df_population
    df_combined,    \* main's local df_combined
    df_stats,       \* main's local df_stats
    output_file,    \* << >> while no file exists at output_file_path, else <<rows>>
    args_after,     \* the argument objects of the last returned call, as they are after it
    cleaner,        \* which cleaner a caller applies repeatedly ("none" in main)
    cleaned_once,   \* result of applying that cleaner to a raw table
    cleaned_twice   \* result of applying it again to its own output

vars == <<pc, error, df_covid, df_population, df_combined, df_stats, output_file,
          args_after, cleaner, cleaned_once, cleaned_twice>>

----------------------------------------------------------------------------
(* Bounds of the model                                                     *)

\* rows of a raw CSV table read by main
MaxRawRows == 1
\* rows of a raw CSV table handed to a cleaner that is applied twice
MaxCleanRows == 2
\* rows of a cleaned case table handed to combine_data
MaxRows == 2
\* the days cleaned dates fall on
DateValues == 1..2
\* cumulative cases, cumulative deaths and population estimates of cleaned tables
CountValues == 0..1

----------------------------------------------------------------------------
(* Cells and strings                                                       *)

NaN == << >>
Some(v) == <<v>>
isna(cell) == cell = NaN
Val(cell) == cell[1]

Digits == <<"0", "1", "2", "3", "4", "5", "6", "7", "8", "9">>
IsDigit(ch) == \E d \in 1..10 : Digits[d] = ch
DigitValue(ch) == (CHOOSE d \in 1..10 : Digits[d] = ch) - 1

RECURSIVE lstrip(_)
lstrip(s) == IF s # << >> /\ Head(s) = " " THEN lstrip(Tail(s)) ELSE s

RECURSIVE rstrip(_)
rstrip(s) == IF s # << >> /\ s[Len(s)] = " " THEN rstrip(SubSeq(s, 1, Len(s) - 1)) ELSE s

\* str.strip(): whitespace removed at both ends
strip(s) == rstrip(lstrip(s))

\* Series.str.strip(): a missing value stays missing
str_strip(cell) == IF isna(cell) THEN NaN ELSE Some(strip(Val(cell)))

\* Series + Series on object columns: string concatenation, missing if either is
str_concat(a, b) == IF isna(a) \/ isna(b) THEN NaN ELSE Some(Val(a) \o Val(b))

\* the digits of an integer literal, after the whitespace and the sign
IntBody(s) ==
    LET t == strip(s)
    IN  IF t # << >> /\ Head(t) \in {"+", "-"} THEN Tail(t) ELSE t

\* int(s) raises ValueError unless s is an optionally signed run of digits
int_ok(s) == IntBody(s) # << >> /\ \A i \in 1..Len(IntBody(s)) : IsDigit(IntBody(s)[i])

RECURSIVE DigitsValue(_)
DigitsValue(s) ==
    IF s = << >> THEN 0
    ELSE DigitsValue(SubSeq(s, 1, Len(s) - 1)) * 10 + DigitValue(s[Len(s)])

int(s) ==
    LET t == strip(s)
    IN  IF t # << >> /\ Head(t) = "-" THEN 0 - DigitsValue(IntBody(s))
        ELSE DigitsValue(IntBody(s))

\* the date strings the parser knows, with the day each one names
DateStrings == {"2020-03-01", "2020-03-02", "2020-03-03"}
DayOf(s) == CASE s = "2020-03-01" -> 1
              [] s = "2020-03-02" -> 2
              [] s = "2020-03-03" -> 3

\* astype("datetime64[ns]") on a string: "NaT" parses to the missing date NaT,
\* a date string to its day, anything else raises
datetime_ok(s) == s \in DateStrings \cup {"NaT"}
datetime(s) == IF s = "NaT" THEN NaN ELSE Some(DayOf(s))

----------------------------------------------------------------------------
(* DataFrames                                                              *)

\* the value of a local that is not bound yet
Unbound == [dtypes |-> [unbound |-> "unbound"], rows |-> << >>]

columns(df) == DOMAIN df.dtypes
HasColumns(df, cols) == cols \subseteq columns(df)

\* the result of a call: the frame it returns, or the exception it raises
Returns(df) == [ok |-> TRUE, df |-> df]
Raises == [ok |-> FALSE, df |-> Unbound]

----------------------------------------------------------------------------
(* Record Cleaner                                                          *)

\* df_covid[feature_list]: a new frame with the four feature columns
select_covid_features(df) ==
    [dtypes |-> [fips |-> df.dtypes.fips, date |-> df.dtypes.date,
                 cases |-> df.dtypes.cases, deaths |-> df.dtypes.deaths],
     rows |-> [i \in 1..Len(df.rows) |->
                 [fips |-> df.rows[i].fips, date |-> df.rows[i].date,
                  cases |-> df.rows[i].cases, deaths |-> df.rows[i].deaths]]]

\* dropna(subset=feature_list): rows with a missing fips, date, cases or deaths go
dropna(df) ==
    LET complete(r) == ~isna(r.fips) /\ ~isna(r.date) /\ ~isna(r.cases) /\ ~isna(r.deaths)
    IN  [dtypes |-> df.dtypes, rows |-> SelectSeq(df.rows, complete)]

\* astype(int) of one cell of a column of dtype dt: int() of a Python object,
\* nothing to do in an int64 column
int_cell_ok(dt, cell) == dt = "int64" \/ (~isna(cell) /\ int_ok(Val(cell)))
int_cell(dt, cell) == IF dt = "int64" THEN cell ELSE Some(int(Val(cell)))

\* astype("datetime64[ns]") of one cell
datetime_cell_ok(dt, cell) == dt = "datetime64[ns]" \/ isna(cell) \/ datetime_ok(Val(cell))
datetime_cell(dt, cell) ==
    IF dt = "datetime64[ns]" \/ isna(cell) THEN cell ELSE datetime(Val(cell))

\* df_covid.astype({"cases": int, "deaths": int, "date": "datetime64[ns]"})
astype_covid_ok(df) ==
    \A i \in 1..Len(df.rows) :
        /\ int_cell_ok(df.dtypes.cases, df.rows[i].cases)
        /\ int_cell_ok(df.dtypes.deaths, df.rows[i].deaths)
        /\ datetime_cell_ok(df.dtypes.date, df.rows[i].date)

astype_covid(df) ==
    [dtypes |-> [fips |-> df.dtypes.fips, date |-> "datetime64[ns]",
                 cases |-> "int64", deaths |-> "int64"],
     rows |-> [i \in 1..Len(df.rows) |->
                 [fips |-> df.rows[i].fips,
                  date |-> datetime_cell(df.dtypes.date, df.rows[i].date),
                  cases |-> int_cell(df.dtypes.cases, df.rows[i].cases),
                  deaths |-> int_cell(df.dtypes.deaths, df.rows[i].deaths)]]]

preprocess_covid19_df(df) ==
    IF ~HasColumns(df, {"fips", "date", "cases", "deaths"}) THEN Raises
    ELSE LET kept == dropna(select_covid_features(df))
         IN  IF astype_covid_ok(kept) THEN Returns(astype_covid(kept)) ELSE Raises

\* df_population["fips"] = STATE.str.strip() + COUNTY.str.strip(): the column is
\* added to the frame the caller passed
assign_fips(df) ==
    [dtypes |-> [STATE |-> df.dtypes.STATE, COUNTY |-> df.dtypes.COUNTY,
                 CTYNAME |-> df.dtypes.CTYNAME,
                 POPESTIMATE2019 |-> df.dtypes.POPESTIMATE2019, fips |-> "object"],
     rows |-> [i \in 1..Len(df.rows) |->
                 [STATE |-> df.rows[i].STATE, COUNTY |-> df.rows[i].COUNTY,
                  CTYNAME |-> df.rows[i].CTYNAME,
                  POPESTIMATE2019 |-> df.rows[i].POPESTIMATE2019,
                  fips |-> str_concat(str_strip(df.rows[i].STATE),
                                      str_strip(df.rows[i].COUNTY))]]]

\* df_population.astype({"POPESTIMATE2019": "int"}): a new frame
astype_population_ok(df) ==
    \A i \in 1..Len(df.rows) :
        int_cell_ok(df.dtypes.POPESTIMATE2019, df.rows[i].POPESTIMATE2019)

astype_population(df) ==
    [dtypes |-> [STATE |-> df.dtypes.STATE, COUNTY |-> df.dtypes.COUNTY,
                 CTYNAME |-> df.dtypes.CTYNAME,
                 POPESTIMATE2019 |-> "int64", fips |-> df.dtypes.fips],
     rows |-> [i \in 1..Len(df.rows) |->
                 [STATE |-> df.rows[i].STATE, COUNTY |-> df.rows[i].COUNTY,
                  CTYNAME |-> df.rows[i].CTYNAME,
                  POPESTIMATE2019 |-> int_cell(df.dtypes.POPESTIMATE2019,
                                               df.rows[i].POPESTIMATE2019),
                  fips |-> df.rows[i].fips]]]

\* the mutant: the cleaned frame is returned with every column it has
select_population_all(df) == df

\* df_population[feature_list]: a new frame with fips and POPESTIMATE2019
select_population_features(df) ==
    [dtypes |-> [fips |-> df.dtypes.fips, POPESTIMATE2019 |-> df.dtypes.POPESTIMATE2019],
     rows |-> [i \in 1..Len(df.rows) |->
                 [fips |-> df.rows[i].fips,
                  POPESTIMATE2019 |-> df.rows[i].POPESTIMATE2019]]]

\* the frame the caller passed, as preprocess_population_df leaves it: untouched
\* when line 121 raises KeyError, with the fips column once line 121 has run
population_arg_after(df) ==
    IF HasColumns(df, {"STATE", "COUNTY"}) THEN assign_fips(df) ELSE df

preprocess_population_df(df) ==
    IF ~HasColumns(df, {"STATE", "COUNTY"}) THEN Raises
    ELSE IF ~astype_population_ok(assign_fips(df)) THEN Raises
    ELSE Returns(select_population_features(astype_population(assign_fips(df))))

----------------------------------------------------------------------------
(* Joiner                                                                  *)

\* one row of the merged frame: the case row with the population estimate
merged_row(l, estimate) ==
    [fips |-> l.fips, date |-> l.date, cases |-> l.cases, deaths |-> l.deaths,
     POPESTIMATE2019 |-> estimate]

\* the rows of the right frame whose key equals the key of the left row l
matches(l, right) == LET same(r) == r.fips = l.fips IN SelectSeq(right.rows, same)

\* the mutant: how="inner", a left row without a match yields nothing
merge_rows_inner(l, right) ==
    [j \in 1..Len(matches(l, right)) |->
        merged_row(l, matches(l, right)[j].POPESTIMATE2019)]

\* how="left": a left row yields one row per matching right row, in the right
\* frame's order, and one row with a missing estimate when nothing matches
merge_rows(l, right) ==
    IF matches(l, right) = << >> THEN <<merged_row(l, NaN)>>
    ELSE [j \in 1..Len(matches(l, right)) |->
            merged_row(l, matches(l, right)[j].POPESTIMATE2019)]

RECURSIVE merge_from(_, _, _)
merge_from(i, left, right) ==
    IF i > Len(left.rows) THEN << >>
    ELSE merge_rows(left.rows[i], right) \o merge_from(i + 1, left, right)

\* df_covid.merge(df_population, on="fips", how="left"): the left order is kept;
\* the estimate column turns float64 as soon as it holds a missing value
merge(left, right) ==
    LET rows == merge_from(1, left, right)
    IN  [dtypes |-> [fips |-> left.dtypes.fips, date |-> left.dtypes.date,
                     cases |-> left.dtypes.cases, deaths |-> left.dtypes.deaths,
                     POPESTIMATE2019 |->
                        IF \E i \in 1..Len(rows) : isna(rows[i].POPESTIMATE2019)
                        THEN "float64" ELSE right.dtypes.POPESTIMATE2019],
         rows |-> rows]

\* df_combined[feature_list]
select_combined_features(df) ==
    [dtypes |-> [fips |-> df.dtypes.fips, date |-> df.dtypes.date,
                 cases |-> df.dtypes.cases, deaths |-> df.dtypes.deaths,
                 POPESTIMATE2019 |-> df.dtypes.POPESTIMATE2019],
     rows |-> [i \in 1..Len(df.rows) |->
                 merged_row(df.rows[i], df.rows[i].POPESTIMATE2019)]]

combine_data(covid, population) == select_combined_features(merge(covid, population))

----------------------------------------------------------------------------
(* County Statistics Engine                                                *)

\* the order sort_values gives dates: ascending, missing dates last
DateLeq(a, b) == isna(b) \/ (~isna(a) /\ Val(a) <= Val(b))

\* the mutant: the rows stay in the order they were given in
sort_values_unsorted(rows) == {rows}

\* the mutant: rows of an already seen date are dropped while sorting
sort_values_dedup(rows) ==
    LET n == Len(rows)
        first(i) == \A j \in 1..(i - 1) : rows[j].date # rows[i].date
        kept == {i \in 1..n : first(i)}
        rank(i) == Cardinality({j \in kept : Val(rows[j].date) < Val(rows[i].date)}) + 1
    IN  {[k \in 1..Cardinality(kept) |-> rows[CHOOSE i \in kept : rank(i) = k]]}

Without(rows, i) == SubSeq(rows, 1, i - 1) \o SubSeq(rows, i + 1, Len(rows))

\* df_county.sort_values(by="date"): the default sort is not stable, so every
\* arrangement with the dates in ascending order is a possible result: any row
\* that no other row precedes comes first, the others follow in sorted order
RECURSIVE sort_values(_)
sort_values(rows) ==
    IF rows = << >> THEN {<< >>}
    ELSE LET least == {i \in 1..Len(rows) :
                         \A j \in 1..Len(rows) : DateLeq(rows[i].date, rows[j].date)}
         IN  UNION {{<<rows[i]>> \o rest : rest \in sort_values(Without(rows, i))} :
                      i \in least}

\* the mutant: the first row has its own value as predecessor
shift_backfill(col) == [i \in 1..Len(col) |-> IF i = 1 THEN col[1] ELSE col[i - 1]]

\* Series.shift(fill_value=0): every value moves down one row, 0 enters at the top
shift(col) == [i \in 1..Len(col) |-> IF i = 1 THEN Some(0) ELSE col[i - 1]]

\* the mutant: a missing operand counts as 0
sub_fillna(a, b) ==
    Some((IF isna(a) THEN 0 ELSE Val(a)) - (IF isna(b) THEN 0 ELSE Val(b)))

\* Series - Series: a missing operand gives a missing result
sub(a, b) == IF isna(a) \/ isna(b) THEN NaN ELSE Some(Val(a) - Val(b))

\* the mutant: cumulative deaths are added to the estimate
population_plus(estimate, deaths) ==
    IF isna(estimate) \/ isna(deaths) THEN NaN ELSE Some(Val(estimate) + Val(deaths))

\* df_county["POPESTIMATE2019"] - df_county["cumulative_deaths_to_date"]
population(estimate, deaths) == sub(estimate, deaths)

\* lines 209-239 on the sorted rows: the frame is indexed by date
county_stats(rows) ==
    LET cases == [i \in 1..Len(rows) |-> rows[i].cases]
        deaths == [i \in 1..Len(rows) |-> rows[i].deaths]
    IN  [i \in 1..Len(rows) |->
            [date |-> rows[i].date,
             population |-> population(rows[i].POPESTIMATE2019, rows[i].deaths),
             daily_cases |-> sub(cases[i], shift(cases)[i]),
             daily_deaths |-> sub(deaths[i], shift(deaths)[i]),
             cumulative_cases_to_date |-> rows[i].cases,
             cumulative_deaths_to_date |-> rows[i].deaths]]

\* every result calculate_stats_by_county can return for the rows of one county
calculate_stats_by_county(rows) == {county_stats(s) : s \in sort_values(rows)}

----------------------------------------------------------------------------
(* Aggregator                                                              *)

Chars == <<" ", "+", "-", "0", "1", "2", "3", "4", "5", "6", "7", "8", "9", "x">>
Rank(ch) == CHOOSE k \in 1..Len(Chars) : Chars[k] = ch

RECURSIVE StrLess(_, _)
StrLess(a, b) ==
    IF b = << >> THEN FALSE
    ELSE IF a = << >> THEN TRUE
    ELSE IF Head(a) = Head(b) THEN StrLess(Tail(a), Tail(b))
    ELSE Rank(Head(a)) < Rank(Head(b))

RECURSIVE SortedKeys(_)
SortedKeys(K) ==
    IF K = {} THEN << >>
    ELSE LET m == CHOOSE k \in K : \A j \in K \ {k} : StrLess(Val(k), Val(j))
         IN  <<m>> \o SortedKeys(K \ {m})

\* groupby("fips"): the group keys in sorted order; a missing key forms no group
group_keys(df) == SortedKeys({df.rows[i].fips : i \in 1..Len(df.rows)} \ {NaN})

\* the mutant: every group is handed the whole frame
get_group_all(df, key) == df.rows

\* the rows of the group of key, in the order of the frame
get_group(df, key) == LET of_key(r) == r.fips = key IN SelectSeq(df.rows, of_key)

\* one applied group, keyed: the group key becomes the first index level
keyed(key, rows) ==
    [i \in 1..Len(rows) |->
        [fips |-> key, date |-> rows[i].date, population |-> rows[i].population,
         daily_cases |-> rows[i].daily_cases, daily_deaths |-> rows[i].daily_deaths,
         cumulative_cases_to_date |-> rows[i].cumulative_cases_to_date,
         cumulative_deaths_to_date |-> rows[i].cumulative_deaths_to_date]]

RECURSIVE concat(_)
concat(results) ==
    IF results = << >> THEN << >> ELSE Head(results) \o concat(Tail(results))

\* the results apply can collect for the groups of keys, in the order of keys
RECURSIVE apply(_, _)
apply(df, keys) ==
    IF keys = << >> THEN {<< >>}
    ELSE {<<keyed(Head(keys), result)>> \o rest :
            result \in calculate_stats_by_county(get_group(df, Head(keys))),
            rest \in apply(df, Tail(keys))}

\* the frame groupby.apply assembles and line 276 selects from: indexed by
\* (fips, date), its columns are the five statistics
stats_frame(combined, results) ==
    [dtypes |-> [population |-> combined.dtypes.POPESTIMATE2019,
                 daily_cases |-> "int64", daily_deaths |-> "int64",
                 cumulative_cases_to_date |-> "int64",
                 cumulative_deaths_to_date |-> "int64"],
     rows |-> concat(results)]

\* with no group at all the assembled frame has none of the statistics columns
\* and the selection of line 276 raises KeyError
calculate_stats_ok(combined) == group_keys(combined) # << >>

\* every frame calculate_stats can return
calculate_stats(combined) ==
    {stats_frame(combined, results) : results \in apply(combined, group_keys(combined))}

----------------------------------------------------------------------------
(* Inputs                                                                  *)

\* all sequences of at most n elements of S
SeqsUpTo(S, n) == UNION {[1..k -> S] : k \in 0..n}

Counties == {<<"1", "1">>, <<"1", "2">>}

\* a population table has up to one row for each county, any county in any row
MaxPopRows == Cardinality(Counties)

\* cells of the CSV files as read_csv(dtype=object) delivers them
RawFipsCells == {NaN} \cup {Some(c) : c \in Counties}
RawDateCells == {NaN, Some("2020-03-01"), Some("NaT"), Some("junk")}
RawCasesCells == {Some(<<"0">>), Some(<<" ", "1">>), Some(<<"x">>)}
RawDeathsCells == {NaN, Some(<<"1">>)}
RawStateCells == {Some(<<"1">>), Some(<<" ", "1">>)}
RawCountyCells == {Some(<<"1">>), Some(<<"2", " ">>)}
RawEstimateCells == {NaN, Some(<<"1">>), Some(<<"x">>)}

RawCovidRows ==
    [fips : RawFipsCells, date : RawDateCells, county : {Some(<<"x">>)},
     state : {Some(<<"x">>)}, cases : RawCasesCells, deaths : RawDeathsCells]

RawCovidTables(n) ==
    {[dtypes |-> [fips |-> "object", date |-> "object", county |-> "object",
                  state |-> "object", cases |-> "object", deaths |-> "object"],
      rows |-> rows] : rows \in SeqsUpTo(RawCovidRows, n)}

RawCovidFrames == RawCovidTables(MaxRawRows)

RawPopulationRows ==
    {[STATE |-> s, COUNTY |-> c, CTYNAME |-> Some(<<"x">>), POPESTIMATE2019 |-> e] :
        s \in RawStateCells, c \in RawCountyCells, e \in RawEstimateCells}

RawPopulationTables(n) ==
    {[dtypes |-> [STATE |-> "object", COUNTY |-> "object", CTYNAME |-> "object",
                  POPESTIMATE2019 |-> "object"],
      rows |-> rows] : rows \in SeqsUpTo(RawPopulationRows, n)}

RawPopulationFrames == RawPopulationTables(MaxRawRows)

\* cleaned tables, as the cleaners return them
\* cumulative deaths do not exceed cumulative cases: a death is a case
CovidRows ==
    {r \in [fips : {Some(c) : c \in Counties}, date : {Some(d) : d \in DateValues},
            cases : {Some(n) : n \in CountValues}, deaths : {Some(n) : n \in CountValues}] :
        Val(r.deaths) <= Val(r.cases)}

CovidFrames ==
    {[dtypes |-> [fips |-> "object", date |-> "datetime64[ns]",
                  cases |-> "int64", deaths |-> "int64"],
      rows |-> rows] : rows \in SeqsUpTo(CovidRows, MaxRows)}

PopulationRows ==
    [fips : {Some(c) : c \in Counties}, POPESTIMATE2019 : {Some(n) : n \in CountValues}]

PopulationFrames ==
    {[dtypes |-> [fips |-> "object", POPESTIMATE2019 |-> "int64"],
      rows |-> rows] : rows \in SeqsUpTo(PopulationRows, MaxPopRows)}

----------------------------------------------------------------------------
(* main(): read, clean, combine, statistics, write                         *)

InitAt(start) ==
    /\ pc = start
    /\ error = "none"
    /\ df_covid = Unbound
    /\ df_population = Unbound
    /\ df_combined = Unbound
    /\ df_stats = Unbound
    /\ output_file = NaN
    /\ args_after = << >>
    /\ cleaner = "none"
    /\ cleaned_once = Raises
    /\ cleaned_twice = Raises

Init == InitAt("read_covid")

harness == <<cleaner, cleaned_once, cleaned_twice>>

\* the mutant: the output file is created before the run is known to succeed
AbortWithEmptyFile(stage) ==
    /\ pc' = "failed"
    /\ error' = stage
    /\ output_file' = Some(<< >>)

\* an exception leaves main: nothing after the failing step runs
Abort(stage) ==
    /\ pc' = "failed"
    /\ error' = stage
    /\ UNCHANGED output_file

\* pd.read_csv(args.covid19_csv_path, dtype=object)
ReadCovid ==
    /\ pc = "read_covid"
    /\ \E t \in RawCovidFrames : df_covid' = t
    /\ pc' = "read_population"
    /\ UNCHANGED <<error, df_population, df_combined, df_stats, output_file,
                   args_after, harness>>

ReadCovidFails ==
    /\ pc = "read_covid"
    /\ Abort("read_covid")
    /\ UNCHANGED <<df_covid, df_population, df_combined, df_stats,
                   args_after, harness>>

\* pd.read_csv(args.population_csv_path, dtype=object, encoding="ISO-8859-1")
ReadPopulation ==
    /\ pc = "read_population"
    /\ \E t \in RawPopulationFrames : df_population' = t
    /\ pc' = "clean_covid"
    /\ UNCHANGED <<error, df_covid, df_combined, df_stats, output_file,
                   args_after, harness>>

ReadPopulationFails ==
    /\ pc = "read_population"
    /\ Abort("read_population")
    /\ UNCHANGED <<df_covid, df_population, df_combined, df_stats,
                   args_after, harness>>

\* df_covid = preprocess_covid19_df(df_covid)
CleanCovid ==
    /\ pc = "clean_covid"
    /\ args_after' = <<df_covid>>
    /\ IF preprocess_covid19_df(df_covid).ok
       THEN /\ df_covid' = preprocess_covid19_df(df_covid).df
            /\ pc' = "clean_population"
            /\ UNCHANGED <<error, output_file>>
       ELSE /\ Abort("clean_covid")
            /\ UNCHANGED df_covid
    /\ UNCHANGED <<df_population, df_combined, df_stats, harness>>

\* df_population = preprocess_population_df(df_population)
CleanPopulation ==
    /\ pc = "clean_population"
    /\ args_after' = <<population_arg_after(df_population)>>
    /\ IF preprocess_population_df(df_population).ok
       THEN /\ df_population' = preprocess_population_df(df_population).df
            /\ pc' = "combine"
            /\ UNCHANGED <<error, output_file>>
       ELSE /\ Abort("clean_population")
            /\ UNCHANGED df_population
    /\ UNCHANGED <<df_covid, df_combined, df_stats, harness>>

\* df_combined = combine_data(df_covid, df_population)
CombineData ==
    /\ pc = "combine"
    /\ df_combined' = combine_data(df_covid, df_population)
    /\ args_after' = <<df_covid, df_population>>
    /\ pc' = "stats"
    /\ UNCHANGED <<error, df_covid, df_population, df_stats, output_file,
                   harness>>

\* df_stats = calculate_stats(df_combined)
CalculateStats ==
    /\ pc = "stats"
    /\ args_after' = <<df_combined>>
    /\ IF calculate_stats_ok(df_combined)
       THEN /\ \E result \in calculate_stats(df_combined) : df_stats' = result
            /\ pc' = "write"
            /\ UNCHANGED <<error, output_file>>
       ELSE /\ Abort("stats")
            /\ UNCHANGED df_stats
    /\ UNCHANGED <<df_covid, df_population, df_combined, harness>>

\* df_stats.to_csv(args.output_file_path)
WriteOutput ==
    /\ pc = "write"
    /\ output_file' = Some(df_stats.rows)
    /\ pc' = "done"
    /\ UNCHANGED <<error, df_covid, df_population, df_combined, df_stats,
                   args_after, harness>>

\* to_csv raises: the file may not exist, or hold the rows written so far
WriteOutputFails ==
    /\ pc = "write"
    /\ \/ output_file' = NaN
       \/ \E k \in 0..Len(df_stats.rows) : output_file' = Some(SubSeq(df_stats.rows, 1, k))
    /\ pc' = "failed"
    /\ error' = "write"
    /\ UNCHANGED <<df_covid, df_population, df_combined, df_stats,
                   args_after, harness>>

Next ==
    \/ ReadCovid \/ ReadCovidFails
    \/ ReadPopulation \/ ReadPopulationFails
    \/ CleanCovid
    \/ CleanPopulation
    \/ CombineData
    \/ CalculateStats
    \/ WriteOutput \/ WriteOutputFails

Spec == Init /\ [][Next]_vars

----------------------------------------------------------------------------
(* combine_data and calculate_stats called on cleaned tables                *)

\* the caller holds any cleaned case table and any cleaned population table
InitStats ==
    /\ pc = "combine"
    /\ error = "none"
    /\ df_covid \in CovidFrames
    /\ df_population \in PopulationFrames
    /\ df_combined = Unbound
    /\ df_stats = Unbound
    /\ output_file = NaN
    /\ args_after = << >>
    /\ cleaner = "none"
    /\ cleaned_once = Raises
    /\ cleaned_twice = Raises

NextStats ==
    \/ CombineData
    \/ CalculateStats

SpecStats == InitStats /\ [][NextStats]_vars

----------------------------------------------------------------------------
(* a cleaner applied to a raw table, and again to its own output            *)

InitClean == InitAt("clean")

pipeline == <<error, df_covid, df_population, df_combined, df_stats, output_file>>

CleanCovidOnce ==
    /\ pc = "clean"
    /\ \E t \in RawCovidTables(MaxCleanRows) :
          /\ cleaned_once' = preprocess_covid19_df(t)
          /\ args_after' = <<t>>
    /\ cleaner' = "covid"
    /\ pc' = "once"
    /\ UNCHANGED <<pipeline, cleaned_twice>>

CleanPopulationOnce ==
    /\ pc = "clean"
    /\ \E t \in RawPopulationTables(MaxCleanRows) :
          /\ cleaned_once' = preprocess_population_df(t)
          /\ args_after' = <<population_arg_after(t)>>
    /\ cleaner' = "population"
    /\ pc' = "once"
    /\ UNCHANGED <<pipeline, cleaned_twice>>

CleanCovidAgain ==
    /\ pc = "once"
    /\ cleaner = "covid"
    /\ cleaned_once.ok
    /\ cleaned_twice' = preprocess_covid19_df(cleaned_once.df)
    /\ pc' = "twice"
    /\ UNCHANGED <<pipeline, args_after, cleaner, cleaned_once>>

CleanPopulationAgain ==
    /\ pc = "once"
    /\ cleaner = "population"
    /\ cleaned_once.ok
    /\ cleaned_twice' = preprocess_population_df(cleaned_once.df)
    /\ pc' = "twice"
    /\ UNCHANGED <<pipeline, args_after, cleaner, cleaned_once>>

NextClean ==
    \/ CleanCovidOnce \/ CleanCovidAgain
    \/ CleanPopulationOnce \/ CleanPopulationAgain

SpecClean == InitClean /\ [][NextClean]_vars

----------------------------------------------------------------------------
(* Vocabulary of the properties                                            *)

Range(s) == {s[i] : i \in 1..Len(s)}
Count(s, x) == Cardinality({i \in 1..Len(s) : s[i] = x})
\* the same elements, each as many times
SameBag(s, t) == \A x \in Range(s) \cup Range(t) : Count(s, x) = Count(t, x)

\* the rows of a table that belong to county c
OfCounty(rows, c) == LET of_c(r) == r.fips = Some(c) IN SelectSeq(rows, of_c)

\* what identifies a case record, in a case table and in the statistics
CaseRecords(rows) ==
    [i \in 1..Len(rows) |-> <<rows[i].fips, rows[i].date, rows[i].cases, rows[i].deaths>>]
StatRecords(rows) ==
    [i \in 1..Len(rows) |-> <<rows[i].fips, rows[i].date, rows[i].cumulative_cases_to_date,
                              rows[i].cumulative_deaths_to_date>>]

DistinctDates(rows) ==
    \A j, k \in 1..Len(rows) : j # k => rows[j].date # rows[k].date
DuplicateCountyDate(rows) ==
    \E j, k \in 1..Len(rows) :
        j # k /\ rows[j].fips = rows[k].fips /\ rows[j].date = rows[k].date
UniqueKeys(rows) ==
    \A j, k \in 1..Len(rows) : j # k => rows[j].fips # rows[k].fips

\* the value a cumulative column has on the row before row i, 0 before the first
Previous(col, i) == IF i = 1 THEN 0 ELSE Val(col[i - 1])

\* each daily value is the cumulative value minus the one of the row before
DeltaLaw(out) ==
    LET cases == [i \in 1..Len(out) |-> out[i].cumulative_cases_to_date]
        deaths == [i \in 1..Len(out) |-> out[i].cumulative_deaths_to_date]
    IN  \A i \in 1..Len(out) :
            /\ out[i].daily_cases = Some(Val(cases[i]) - Previous(cases, i))
            /\ out[i].daily_deaths = Some(Val(deaths[i]) - Previous(deaths, i))

RECURSIVE PrefixSum(_, _)
PrefixSum(xs, k) == IF k = 0 THEN 0 ELSE PrefixSum(xs, k - 1) + Val(xs[k])

\* combine_data has returned
Combined == pc \in {"stats", "write"} \/ (pc = "failed" /\ error = "stats")

----------------------------------------------------------------------------
(* C1: for the rows of one county with distinct dates, the statistics are   *)
(* the rows in ascending date order, whatever order they were given in, and *)
(* each daily value is the cumulative value of the row minus that of the    *)
(* row before it in date order, 0 before the first.                         *)
C1_DailyDeltasOfSortedRows ==
    pc = "write" =>
        \A c \in Counties :
            LET inp == OfCounty(df_combined.rows, c)
                out == OfCounty(df_stats.rows, c)
                n == Len(inp)
                src(i) == CHOOSE j \in 1..n : inp[j].date = out[i].date
            IN  DistinctDates(inp) =>
                    /\ Len(out) = n
                    /\ \A i \in 1..(n - 1) : Val(out[i].date) < Val(out[i + 1].date)
                    /\ \A i \in 1..n : \E j \in 1..n : inp[j].date = out[i].date
                    /\ \A i \in 1..n :
                          /\ out[i].daily_cases =
                                Some(Val(inp[src(i)].cases)
                                     - (IF i = 1 THEN 0 ELSE Val(inp[src(i - 1)].cases)))
                          /\ out[i].daily_deaths =
                                Some(Val(inp[src(i)].deaths)
                                     - (IF i = 1 THEN 0 ELSE Val(inp[src(i - 1)].deaths)))

\* a county given latest date first, whose first sorted row has its cumulative
\* count as daily count
C1_Witness ==
    /\ pc = "write"
    /\ \E c \in Counties :
          LET inp == OfCounty(df_combined.rows, c)
              out == OfCounty(df_stats.rows, c)
          IN  /\ Len(inp) = 2
              /\ Val(inp[1].date) > Val(inp[2].date)
              /\ Len(out) = 2
              /\ out[1].daily_cases = Some(1)
              /\ out[1].cumulative_cases_to_date = Some(1)

(* C2: for every county of the statistics, every prefix sum of the daily    *)
(* cases (deaths) equals the cumulative cases (deaths) of the row where the *)
(* prefix ends; the last row is a row of the latest date, so the sum over   *)
(* the series is the final cumulative value.                                *)
C2_DeltaReconstruction ==
    pc = "write" =>
        \A c \in Counties :
            LET out == OfCounty(df_stats.rows, c)
                daily_cases == [i \in 1..Len(out) |-> out[i].daily_cases]
                daily_deaths == [i \in 1..Len(out) |-> out[i].daily_deaths]
            IN  \A k \in 1..Len(out) :
                    /\ PrefixSum(daily_cases, k) = Val(out[k].cumulative_cases_to_date)
                    /\ PrefixSum(daily_deaths, k) = Val(out[k].cumulative_deaths_to_date)
                    /\ DateLeq(out[k].date, out[Len(out)].date)

\* a county with two rows and a nonzero count on both days
C2_Witness ==
    /\ pc = "write"
    /\ \E c \in Counties :
          LET out == OfCounty(df_stats.rows, c)
          IN  /\ Len(out) = 2
              /\ out[1].daily_cases = Some(1)
              /\ out[2].daily_cases = Some(-1)
              /\ out[2].cumulative_cases_to_date = Some(0)

(* C3: every row of the statistics carries the fips, date, cases and deaths *)
(* of a combined row unchanged, and as population that row's estimate minus *)
(* that row's cumulative deaths: missing when the estimate is missing,      *)
(* negative when the deaths exceed the estimate.                            *)
C3_PopulationFormula ==
    pc = "write" =>
        SameBag([i \in 1..Len(df_combined.rows) |->
                    LET r == df_combined.rows[i]
                    IN  <<r.fips, r.date, r.cases, r.deaths,
                          IF r.POPESTIMATE2019 = NaN THEN NaN
                          ELSE Some(Val(r.POPESTIMATE2019) - Val(r.deaths))>>],
                [i \in 1..Len(df_stats.rows) |->
                    LET r == df_stats.rows[i]
                    IN  <<r.fips, r.date, r.cumulative_cases_to_date,
                          r.cumulative_deaths_to_date, r.population>>])

\* a row whose cumulative deaths exceed the estimate
C3_Witness ==
    /\ pc = "write"
    /\ \E i \in 1..Len(df_stats.rows) :
          /\ df_stats.rows[i].population = Some(-1)
          /\ df_stats.rows[i].cumulative_deaths_to_date = Some(1)

(* C4: when the keys of the population table are unique, the combined table *)
(* has exactly the case records of the case table, each once with its fips, *)
(* date, cases and deaths unchanged, and nothing else.                      *)
C4_JoinCardinality ==
    (Combined /\ UniqueKeys(df_population.rows)) =>
        SameBag(CaseRecords(df_combined.rows), CaseRecords(df_covid.rows))

\* two case records of a county with an estimate, and an estimate for a county
\* without case records
C4_Witness ==
    /\ pc = "stats"
    /\ UniqueKeys(df_population.rows)
    /\ Len(df_covid.rows) = 2
    /\ df_covid.rows[1].fips = df_covid.rows[2].fips
    /\ Len(df_population.rows) = 2
    /\ \E j \in 1..2 : df_population.rows[j].fips # df_covid.rows[1].fips
    /\ \E j \in 1..2 : df_population.rows[j].fips = df_covid.rows[1].fips

(* C5, as claimed: cleaning its own output, either cleaner returns the same *)
(* table again.                                                             *)
C5_CleaningIsIdempotent ==
    pc = "twice" => cleaned_twice = cleaned_once

\* the row has a date
Dated(r) == r.date # NaN

\* the cleaned case table holds a missing date (NaT)
HoldsNaT(df) == \E i \in 1..Len(df.rows) : isna(df.rows[i].date)

(* C5, amended: preprocess_covid19_df returns its own output unchanged when *)
(* that output holds no missing date; a row whose date string is "NaT" is   *)
(* kept by the first application with the date NaT and dropped by the       *)
(* second, which changes nothing else;                                      *)
(* preprocess_population_df raises on its own output, which has no STATE    *)
(* and COUNTY columns.                                                      *)
C5_CaseCleaningIsIdempotent ==
    pc = "twice" =>
        /\ (cleaner = "covid" /\ ~HoldsNaT(cleaned_once.df)) => cleaned_twice = cleaned_once
        /\ (cleaner = "covid" /\ HoldsNaT(cleaned_once.df)) =>
              /\ cleaned_twice.ok
              /\ cleaned_twice.df.dtypes = cleaned_once.df.dtypes
              /\ cleaned_twice.df.rows = SelectSeq(cleaned_once.df.rows, Dated)
        /\ cleaner = "population" => ~cleaned_twice.ok

\* a case table whose counts were coerced from padded text is cleaned again
C5_Witness ==
    /\ pc = "twice"
    /\ cleaner = "covid"
    /\ Len(cleaned_once.df.rows) = 1
    /\ cleaned_once.df.rows[1].cases = Some(1)
    /\ args_after[1].rows[1].cases = Some(<<" ", "1">>)
    /\ cleaned_twice = cleaned_once

(* C6, as claimed: when a stage returns, every table passed to it is as it  *)
(* was before the call.                                                     *)
C6_NoStageMutatesItsInput ==
    [][/\ pc = "clean_covid" => args_after' = <<df_covid>>
       /\ pc = "clean_population" => args_after' = <<df_population>>
       /\ pc = "combine" => args_after' = <<df_covid, df_population>>
       /\ pc = "stats" => args_after' = <<df_combined>>]_vars

(* C7: the case records of a county without population record go through   *)
(* combine_data and calculate_stats without error and without loss: each    *)
(* has its row in the statistics, with a missing population and with the    *)
(* daily and cumulative values every county gets.                           *)
C7_UnmatchedCounty ==
    \A c \in Counties :
        LET cases == OfCounty(df_covid.rows, c)
            joined == OfCounty(df_combined.rows, c)
            out == OfCounty(df_stats.rows, c)
        IN  (cases # << >> /\ OfCounty(df_population.rows, c) = << >>) =>
                /\ pc # "failed"
                /\ Combined =>
                      /\ SameBag(CaseRecords(joined), CaseRecords(cases))
                      /\ \A i \in 1..Len(joined) : joined[i].POPESTIMATE2019 = NaN
                /\ pc = "write" =>
                      /\ SameBag(StatRecords(out), CaseRecords(cases))
                      /\ \A i \in 1..Len(out) : out[i].population = NaN
                      /\ DeltaLaw(out)

\* a county with two case records and no estimate, the other county having one
C7_Witness ==
    /\ pc = "write"
    /\ \E c \in Counties :
          /\ Len(OfCounty(df_covid.rows, c)) = 2
          /\ OfCounty(df_population.rows, c) = << >>
          /\ df_population.rows # << >>
          /\ Len(OfCounty(df_stats.rows, c)) = 2
          /\ \A i \in 1..2 : OfCounty(df_stats.rows, c)[i].population = NaN
          /\ OfCounty(df_stats.rows, c)[1].daily_cases = Some(1)

\* the step of main that follows each step
NextStep(step) ==
    CASE step = "read_covid" -> "read_population"
      [] step = "read_population" -> "clean_covid"
      [] step = "clean_covid" -> "clean_population"
      [] step = "clean_population" -> "combine"
      [] step = "combine" -> "stats"
      [] step = "stats" -> "write"
      [] step = "write" -> "done"
      [] OTHER -> "none"

(* C8: main runs read, clean, join, statistics and write in that order, a   *)
(* step starting only when the one before it succeeded; only the write step *)
(* touches the output file, and a run that a step before the write step     *)
(* failed has written nothing.                                              *)
C8_AbortWithoutPartialOutput ==
    /\ [](/\ output_file # NaN => (pc \in {"done", "failed"} /\ error \in {"none", "write"})
          /\ (pc = "failed" /\ error # "write") => output_file = NaN
          /\ pc = "done" => (error = "none" /\ output_file = Some(df_stats.rows)))
    /\ [][/\ pc' # pc =>
                \/ pc' = NextStep(pc) /\ error' = "none"
                \/ pc' = "failed" /\ error' = pc
          /\ output_file' # output_file => pc = "write"]_vars

\* a count that is no number ends the run in the case cleaner, no file written
C8_Witness ==
    /\ pc = "failed"
    /\ error = "clean_covid"
    /\ Len(df_covid.rows) = 1
    /\ df_covid.rows[1].cases = Some(<<"x">>)
    /\ ~isna(df_covid.rows[1].fips) /\ ~isna(df_covid.rows[1].deaths)
    /\ df_covid.rows[1].date = Some("2020-03-01")
    /\ output_file = NaN

\* the statistics of one county without their group key
Unkeyed(rows) ==
    [i \in 1..Len(rows) |->
        [date |-> rows[i].date, population |-> rows[i].population,
         daily_cases |-> rows[i].daily_cases, daily_deaths |-> rows[i].daily_deaths,
         cumulative_cases_to_date |-> rows[i].cumulative_cases_to_date,
         cumulative_deaths_to_date |-> rows[i].cumulative_deaths_to_date]]

\* the combined rows that county_stats turns into the statistics rows out of
\* county c: the cumulative values are the counts, and the estimate is the
\* population with the deaths added back
Arrangement(out, c) ==
    [i \in 1..Len(out) |->
        [fips |-> Some(c), date |-> out[i].date,
         cases |-> out[i].cumulative_cases_to_date,
         deaths |-> out[i].cumulative_deaths_to_date,
         POPESTIMATE2019 |->
            IF out[i].population = NaN THEN NaN
            ELSE Some(Val(out[i].population) + Val(out[i].cumulative_deaths_to_date))]]

(* C9: the rows of the statistics keyed by a county are a result of         *)
(* calculate_stats_by_county on the combined rows of that county alone,     *)
(* that is, the statistics of an arrangement of exactly these rows in       *)
(* ascending date order; the statistics have no row of any other key.       *)
C9_AggregationIsPerCounty ==
    pc = "write" =>
        /\ \A c \in Counties :
              LET inp == OfCounty(df_combined.rows, c)
                  out == OfCounty(df_stats.rows, c)
                  arr == Arrangement(out, c)
              IN  inp # << >> =>
                      /\ SameBag(arr, inp)
                      /\ \A i \in 1..(Len(arr) - 1) : DateLeq(arr[i].date, arr[i + 1].date)
                      /\ Unkeyed(out) = county_stats(arr)
        /\ \A i \in 1..Len(df_stats.rows) :
              \E j \in 1..Len(df_combined.rows) :
                  df_stats.rows[i].fips = df_combined.rows[j].fips

\* the records of two counties, those of the second county given first
C9_Witness ==
    /\ pc = "write"
    /\ Len(df_combined.rows) = 2
    /\ df_combined.rows[1].fips = Some(<<"1", "2">>)
    /\ df_combined.rows[2].fips = Some(<<"1", "1">>)
    /\ df_stats.rows[1].fips = Some(<<"1", "1">>)
    /\ df_stats.rows[1].daily_cases = Some(1)
    /\ df_stats.rows[2].daily_cases = Some(0)

(* C10, as claimed: a case table with a (county, date) pair occurring twice *)
(* goes through combine_data and calculate_stats without error, and the     *)
(* statistics have exactly one row for each case row.                       *)
C10_DuplicatesKeepEveryRow ==
    DuplicateCountyDate(df_covid.rows) =>
        /\ pc # "failed"
        /\ Combined => SameBag(CaseRecords(df_combined.rows), CaseRecords(df_covid.rows))
        /\ pc = "write" => SameBag(StatRecords(df_stats.rows), CaseRecords(df_covid.rows))

(* C10, amended: the same, provided the keys of the population table are    *)
(* unique (each population row of a county yields a row of its own for      *)
(* every case row of that county).                                          *)
C10_DuplicatesKeepEveryRowUniqueKeys ==
    (DuplicateCountyDate(df_covid.rows) /\ UniqueKeys(df_population.rows)) =>
        /\ pc # "failed"
        /\ Combined => SameBag(CaseRecords(df_combined.rows), CaseRecords(df_covid.rows))
        /\ pc = "write" => SameBag(StatRecords(df_stats.rows), CaseRecords(df_covid.rows))

\* two case rows of one county and one date with different counts
C10_Witness ==
    /\ pc = "write"
    /\ Len(df_covid.rows) = 2
    /\ DuplicateCountyDate(df_covid.rows)
    /\ df_covid.rows[1].cases # df_covid.rows[2].cases
    /\ UniqueKeys(df_population.rows)
    /\ Len(df_population.rows) = 2
    /\ Len(df_stats.rows) = 2

====
